---- MODULE Spec2Model ----
(***************************************************************************)
(* Model of src/vigenere.py: the Vigenere class (cipher table, keystream   *)
(* fitting, text validation, encrypt, decrypt, show).                      *)
(*                                                                         *)
(* A Python str is modelled as a sequence of one-character strings, so     *)
(* "abc" is <<"a", "b", "c">>.  Python indices are 0-based, TLA+ sequences *)
(* are 1-based: s[i] in the source is s[i + 1] here.                       *)
(***************************************************************************)
EXTENDS Integers, Sequences, FiniteSets, TLC

VARIABLES
    vig,      \* "unbuilt" before Vigenere(...), then "built" or "failed"
    args,     \* the arguments the constructor was called with
    passkey,  \* self.passkey
    charset,  \* self.charset
    rows,     \* self.rows: dict letter -> rotated charset
    call,     \* the last call made: [op, arg]
    result    \* what the last call returned or raised

vars == <<vig, args, passkey, charset, rows, call, result>>

engine == <<passkey, charset, rows>>

----------------------------------------------------------------------------
(* Bounds of the input domains *)

MaxKey == 2
MaxText == 3
MaxLength == 4

Symbols == {"a", "b", "c"}

SeqsUpTo(S, n) == UNION {[1..m -> S] : m \in 0..n}

\* set(s)
Range(s) == {s[i] : i \in 1..Len(s)}

IsDupFree(s) == \A i, j \in 1..Len(s) : s[i] = s[j] => i = j

\* The charsets: every prefix of Alphabet, and a few more: one that is not in
\* the order of Alphabet and two with duplicates, which the constructor does
\* not reject.  Any other duplicate-free charset over Symbols is one of these
\* with the symbols renamed, and the passkeys and texts range over all of
\* Symbols.
Alphabet == <<"a", "b", "c">>

OtherCharsets == {<<"c", "a">>, <<"a", "a">>, <<"a", "b", "a">>}

Charsets == {SubSeq(Alphabet, 1, n) : n \in 0..Len(Alphabet)} \cup OtherCharsets

Passkeys == SeqsUpTo(Symbols, MaxKey)

Texts == SeqsUpTo(Symbols, MaxText)

\* _fitted_passkey reads only len(text): one text of each length
TextsByLength == {[i \in 1..n |-> "a"] : n \in 0..MaxLength}

Separators == {<<"\t">>, <<"\n">>, <<>>, <<",">>, <<"a">>, <<"a", "b">>, <<"b", "a">>}

----------------------------------------------------------------------------
(* The module constant CHARSET (line 4) and the pieces of Python's string  *)
(* module it is built from.                                                *)

ascii_lowercase ==
    <<"a", "b", "c", "d", "e", "f", "g", "h", "i", "j", "k", "l", "m",
      "n", "o", "p", "q", "r", "s", "t", "u", "v", "w", "x", "y", "z">>

ascii_uppercase ==
    <<"A", "B", "C", "D", "E", "F", "G", "H", "I", "J", "K", "L", "M",
      "N", "O", "P", "Q", "R", "S", "T", "U", "V", "W", "X", "Y", "Z">>

\* string.ascii_letters is ascii_lowercase + ascii_uppercase
ascii_letters == ascii_lowercase \o ascii_uppercase

digits == <<"0", "1", "2", "3", "4", "5", "6", "7", "8", "9">>

\* The grave accent (U+0060) cannot be written inside a TLA+ string: it is
\* the one symbol that goes by a name.
grave == "U+0060"

punctuation ==
    <<"!", "\"", "#", "$", "%", "&", "'", "(", ")", "*", "+", ",", "-", ".",
      "/", ":", ";", "<", "=", ">", "?", "@", "[", "\\", "]", "^", "_", grave,
      "{", "|", "}", "~">>

CHARSET_upper_first ==
    ascii_uppercase \o ascii_lowercase \o digits \o punctuation \o <<" ">>

CHARSET == ascii_letters \o digits \o punctuation \o <<" ">>

----------------------------------------------------------------------------
(* Python's built-in operations used by the class *)

Min(a, b) == IF a <= b THEN a ELSE b

\* s[lo:hi] for 0 <= lo, 0 <= hi: out-of-range bounds are clamped
Slice(s, lo, hi) == SubSeq(s, Min(lo, Len(s)) + 1, Min(hi, Len(s)))

\* s.index(x): the 0-based position of the first occurrence of x in s
Index(s, x) ==
    CHOOSE i \in 0..(Len(s) - 1) :
        s[i + 1] = x /\ \A j \in 0..(i - 1) : s[j + 1] # x

\* sub in s, for two strings: sub occurs as a contiguous substring of s
Contains_nonempty_only(sub, s) ==
    /\ Len(sub) > 0
    /\ \E i \in 0..(Len(s) - Len(sub)) : SubSeq(s, i + 1, i + Len(sub)) = sub

Contains(sub, s) ==
    \E i \in 0..(Len(s) - Len(sub)) : SubSeq(s, i + 1, i + Len(sub)) = sub

\* What a call does: it returns a value, returns None, or raises
Return(v) == [kind |-> "return", value |-> v]

ReturnNone == [kind |-> "return_none"]

Raise(exc, msg, diff) == [kind |-> "raise", exc |-> exc, msg |-> msg, diff |-> diff]

InvalidPasskey == "@passkey must be a subset of @charset."

PasskeyLeakage == "Text cannot contain passkey."

\* the f-string of line 60 without its {diff} part, which Raise carries apart
InvalidCharacters == "Text contains characters not in @charset: "

InvalidSeparator == "Value for @sep can't be in @self.charset or equal \\n."

----------------------------------------------------------------------------
(* Vigenere.__init__ *)

\* The 0-based position of the last occurrence of x in s: in a dict
\* comprehension a later item with the same key replaces the earlier one.
LastIndex(s, x) ==
    CHOOSE i \in 0..(Len(s) - 1) :
        s[i + 1] = x /\ \A j \in (i + 1)..(Len(s) - 1) : s[j + 1] # x

RowsOf_shifted(cs) ==
    [letter \in Range(cs) |->
        LET i == LastIndex(cs, letter)
        IN  Slice(cs, i + 1, Len(cs)) \o Slice(cs, 0, i + 1)]

\* {letter: charset[i:] + charset[:i] for i, letter in enumerate(charset)}
RowsOf(cs) ==
    [letter \in Range(cs) |->
        LET i == LastIndex(cs, letter)
        IN  Slice(cs, i, Len(cs)) \o Slice(cs, 0, i)]

IsSubset_reversed(p, cs) == Range(cs) \subseteq Range(p)

\* set(passkey).issubset(set(charset))
IsSubset(p, cs) == Range(p) \subseteq Range(cs)

Construct(p, cs) ==
    IF ~IsSubset(p, cs)
    THEN /\ vig' = "failed"
         /\ result' = Raise("ValueError", InvalidPasskey, {})
         /\ UNCHANGED <<passkey, charset, rows>>
    ELSE /\ vig' = "built"
         /\ passkey' = p
         /\ charset' = cs
         /\ rows' = RowsOf(cs)
         /\ result' = ReturnNone

\* Vigenere(p, cs)
New(p, cs) ==
    /\ vig = "unbuilt"
    /\ args' = [passkey |-> p, charset |-> cs, defaulted |-> FALSE]
    /\ call' = [op |-> "__init__", arg |-> <<>>]
    /\ Construct(p, cs)

\* Vigenere(p): charset takes its default value, CHARSET
NewDefault(p) ==
    /\ vig = "unbuilt"
    /\ args' = [passkey |-> p, charset |-> CHARSET, defaulted |-> TRUE]
    /\ call' = [op |-> "__init__", arg |-> <<>>]
    /\ Construct(p, CHARSET)

----------------------------------------------------------------------------
(* Vigenere._fitted_passkey *)

\* for i in range(n): fitted_passkey += self.passkey
RECURSIVE Extend(_, _)
Extend(fitted, n) ==
    IF n <= 0 THEN fitted ELSE Extend(fitted \o passkey, n - 1)

fitted_passkey_one_more(text) ==
    LET fitted == passkey
    IN  IF Len(fitted) >= Len(text)
        THEN Return(Slice(fitted, 0, Len(text)))
        ELSE IF Len(fitted) = 0
        THEN Raise("ZeroDivisionError", "integer division or modulo by zero", {})
        ELSE LET div == Len(text) \div Len(fitted)
                 mod == Len(text) % Len(fitted)
             IN  Return(Extend(fitted, div) \o Slice(passkey, 0, mod))

fitted_passkey(text) ==
    LET fitted == passkey
    IN  IF Len(fitted) >= Len(text)
        THEN Return(Slice(fitted, 0, Len(text)))
        ELSE IF Len(fitted) = 0
        THEN \* divmod(len(text), 0)
             Raise("ZeroDivisionError", "integer division or modulo by zero", {})
        ELSE LET div == Len(text) \div Len(fitted)
                 mod == Len(text) % Len(fitted)
             IN  Return(Extend(fitted, div - 1) \o Slice(passkey, 0, mod))

----------------------------------------------------------------------------
(* Vigenere._validate_text *)

validate_text_whole_set(text) ==
    IF Contains(passkey, text)
    THEN Raise("ValueError", PasskeyLeakage, {})
    ELSE LET text_set == Range(text)
             charset_set == Range(charset)
         IN  IF ~(text_set \subseteq charset_set)
             THEN Raise("ValueError", InvalidCharacters, text_set)
             ELSE ReturnNone

validate_text(text) ==
    IF Contains(passkey, text)
    THEN Raise("ValueError", PasskeyLeakage, {})
    ELSE LET text_set == Range(text)
             charset_set == Range(charset)
         IN  IF ~(text_set \subseteq charset_set)
             THEN Raise("ValueError", InvalidCharacters, text_set \ charset_set)
             ELSE ReturnNone

----------------------------------------------------------------------------
(* Vigenere.encrypt, Vigenere.decrypt *)

\* The loop body of encrypt for the character at 1-based position i
encrypted_char_next_col(text, fitted, i) ==
    LET passkey_char == fitted[i]
        charset_pos == Index(charset, passkey_char)
    IN  rows[text[i]][((charset_pos + 1) % Len(charset)) + 1]

encrypted_char(text, fitted, i) ==
    LET passkey_char == fitted[i]
        charset_pos == Index(charset, passkey_char)
    IN  rows[text[i]][charset_pos + 1]

encrypt(text) ==
    LET valid == validate_text(text)
        fitted == fitted_passkey(text)
    IN  IF valid.kind = "raise" THEN valid
        ELSE IF fitted.kind = "raise" THEN fitted
        ELSE Return([i \in 1..Len(fitted.value) |->
                        encrypted_char(text, fitted.value, i)])

\* The loop body of decrypt for the character at 1-based position i
decrypted_char_swapped(text, fitted, i) ==
    LET passkey_char == fitted[i]
        row_pos == Index(rows[text[i]], passkey_char)
    IN  charset[row_pos + 1]

decrypted_char(text, fitted, i) ==
    LET passkey_char == fitted[i]
        row_pos == Index(rows[passkey_char], text[i])
    IN  charset[row_pos + 1]

decrypt(text) ==
    LET valid == validate_text(text)
        fitted == fitted_passkey(text)
    IN  IF valid.kind = "raise" THEN valid
        ELSE IF fitted.kind = "raise" THEN fitted
        ELSE Return([i \in 1..Len(fitted.value) |->
                        decrypted_char(text, fitted.value, i)])

----------------------------------------------------------------------------
(* Vigenere.show *)

\* repr(ch) of a one-character string
Repr(ch) ==
    IF ch = "'" THEN <<"\"", "'", "\"">>
    ELSE IF ch = "\\" THEN <<"'", "\\", "\\", "'">>
    ELSE IF ch = "\t" THEN <<"'", "\\", "t", "'">>
    ELSE IF ch = "\n" THEN <<"'", "\\", "n", "'">>
    ELSE <<"'", ch, "'">>

\* "".join(parts), parts a sequence of strings
RECURSIVE Concat(_)
Concat(parts) ==
    IF Len(parts) = 0 THEN <<>>
    ELSE IF Len(parts) = 1 THEN parts[1]
    ELSE LET half == Len(parts) \div 2
         IN  Concat(SubSeq(parts, 1, half))
                 \o Concat(SubSeq(parts, half + 1, Len(parts)))

\* sep.join(parts)
Join(sep, parts) ==
    Concat([k \in 1..(2 * Len(parts) - 1) |->
               IF k % 2 = 1 THEN parts[(k + 1) \div 2] ELSE sep])

\* The keys of self.rows in the order .items() yields them: each letter of
\* the charset, at its first occurrence.
Keys(cs) ==
    LET firsts == {i \in 1..Len(cs) : \A j \in 1..(i - 1) : cs[j] # cs[i]}
        rank(i) == Cardinality({j \in firsts : j <= i})
    IN  [r \in 1..Cardinality(firsts) |->
            cs[CHOOSE i \in firsts : rank(i) = r]]

\* repr(key) + sep + sep.join([repr(v) for v in vals]) + "\n"
TableLine(key, sep) ==
    LET vals == rows[key]
    IN  Repr(key) \o sep
            \o Join(sep, [j \in 1..Len(vals) |-> Repr(vals[j])])
            \o <<"\n">>

show(sep) ==
    IF Contains(sep, charset) \/ sep = <<"\n">>
    THEN Raise("ValueError", InvalidSeparator, {})
    ELSE LET keys == Keys(charset)
         IN  Return(Concat([k \in 1..Len(keys) |-> TableLine(keys[k], sep)]))

----------------------------------------------------------------------------
(* The calls a program makes on a built engine *)

CallFittedPasskey_in_place(text) ==
    /\ vig = "built"
    /\ call' = [op |-> "_fitted_passkey", arg |-> text]
    /\ result' = fitted_passkey(text)
    /\ passkey' = IF result'.kind = "return" THEN result'.value ELSE passkey
    /\ UNCHANGED <<vig, args, charset, rows>>

CallFittedPasskey(text) ==
    /\ vig = "built"
    /\ call' = [op |-> "_fitted_passkey", arg |-> text]
    /\ result' = fitted_passkey(text)
    /\ UNCHANGED <<vig, args, passkey, charset, rows>>

CallEncrypt(text) ==
    /\ vig = "built"
    /\ call' = [op |-> "encrypt", arg |-> text]
    /\ result' = encrypt(text)
    /\ UNCHANGED <<vig, args, passkey, charset, rows>>

CallDecrypt(text) ==
    /\ vig = "built"
    /\ call' = [op |-> "decrypt", arg |-> text]
    /\ result' = decrypt(text)
    /\ UNCHANGED <<vig, args, passkey, charset, rows>>

CallShow(sep) ==
    /\ vig = "built"
    /\ call' = [op |-> "show", arg |-> sep]
    /\ result' = show(sep)
    /\ UNCHANGED <<vig, args, passkey, charset, rows>>

----------------------------------------------------------------------------
(* Specifications *)

Init ==
    /\ vig = "unbuilt"
    /\ args = [passkey |-> <<>>, charset |-> <<>>, defaulted |-> FALSE]
    /\ passkey = <<>>
    /\ charset = <<>>
    /\ rows = <<>>
    /\ call = [op |-> "", arg |-> <<>>]
    /\ result = ReturnNone

Next ==
    \/ \E p \in Passkeys, cs \in Charsets : New(p, cs)
    \/ \E text \in TextsByLength : CallFittedPasskey(text)
    \/ \E text \in Texts : CallEncrypt(text)
    \/ \E text \in Texts : CallDecrypt(text)
    \/ \E sep \in Separators : CallShow(sep)

Spec == Init /\ [][Next]_vars

\* The engine built with the default charset, on the docstring's example
\* (lines 12-15) and a few more inputs.
DocPasskey == <<"p", "@", "s", "S", "w", "0", "r", "d">>

DocText == <<"h", "e", "l", "l", "o", " ", "w", "o", "r", "l", "d">>

DocEncrypted == <<"w", "^", "D", "3", "K", "Z", "N", "r", "G", " ", "v">>

DefaultPasskeys == {DocPasskey, <<>>, <<"a">>, <<"B">>, <<"~", " ">>, <<"\t">>}

DefaultTexts ==
    {DocText, DocEncrypted, <<>>, <<"a">>, <<"A">>, <<"1">>, <<"B", "B">>,
     <<"z", " ", "~">>, <<"A", "\t">>, <<"\n", "b", "\t">>}

DefaultSeparators == {<<"\t">>, <<"\n">>, <<"a">>}

NextDefault ==
    \/ \E p \in DefaultPasskeys : NewDefault(p)
    \/ \E text \in TextsByLength : CallFittedPasskey(text)
    \/ \E text \in DefaultTexts : CallEncrypt(text)
    \/ \E text \in DefaultTexts : CallDecrypt(text)
    \/ \E sep \in DefaultSeparators : CallShow(sep)

SpecDefault == Init /\ [][NextDefault]_vars

----------------------------------------------------------------------------
(* Properties *)

\* The last call was op, made on a built engine
Called(op) == vig = "built" /\ call.op = op

\* The engine meets the documented preconditions
ValidEngine == vig = "built" /\ IsDupFree(charset) /\ passkey # <<>>

\* The 0-based position of the keystream symbol for text position i
KeyPos(i) == Index(charset, passkey[(i % Len(passkey)) + 1])

\* C1: round trip.  On an engine with a duplicate-free charset and a
\* non-empty passkey, for a text of charset symbols that does not contain the
\* passkey, encrypt(text) returns and decrypt of what it returned returns text.
C1_RoundTrip ==
    (/\ ValidEngine
     /\ Called("encrypt")
     /\ Range(call.arg) \subseteq Range(charset)
     /\ ~Contains(passkey, call.arg))
    => /\ result.kind = "return"
       /\ decrypt(result.value) = Return(call.arg)

\* What does hold of the round trip: decrypt of the ciphertext returns the
\* text unless the ciphertext contains the passkey, and then it raises.
RoundTripUnlessLeak ==
    (/\ ValidEngine
     /\ Called("encrypt")
     /\ Range(call.arg) \subseteq Range(charset)
     /\ ~Contains(passkey, call.arg))
    => /\ result.kind = "return"
       /\ IF Contains(passkey, result.value)
          THEN decrypt(result.value) = Raise("ValueError", PasskeyLeakage, {})
          ELSE decrypt(result.value) = Return(call.arg)

\* C2: encrypt adds positions.  For a text that passes validation, encrypt
\* returns a string of the text's length whose symbol at i is
\* charset[(p + c) mod n], p the position of text[i] and c the position of
\* passkey[i mod k] in the charset.
C2_EncryptAddsPositions ==
    (ValidEngine /\ Called("encrypt") /\ validate_text(call.arg).kind # "raise")
    => /\ result.kind = "return"
       /\ Len(result.value) = Len(call.arg)
       /\ \A i \in 0..(Len(call.arg) - 1) :
              LET n == Len(charset)
                  p == Index(charset, call.arg[i + 1])
                  c == KeyPos(i)
              IN  result.value[i + 1] = charset[((p + c) % n) + 1]

\* encrypt returned for a text longer than the passkey, with a sum of
\* positions that wraps around the charset
C2_Witness ==
    /\ ValidEngine /\ Called("encrypt") /\ result.kind = "return"
    /\ Len(call.arg) > Len(passkey)
    /\ \E i \in 0..(Len(call.arg) - 1) :
           Index(charset, call.arg[i + 1]) + KeyPos(i) >= Len(charset)

\* C3: decrypt subtracts positions.  For a text that passes validation,
\* decrypt returns a string of the text's length whose symbol at i is
\* charset[(q - c) mod n], q the position of text[i] and c the position of
\* passkey[i mod k] in the charset.
C3_DecryptSubtractsPositions ==
    (ValidEngine /\ Called("decrypt") /\ validate_text(call.arg).kind # "raise")
    => /\ result.kind = "return"
       /\ Len(result.value) = Len(call.arg)
       /\ \A i \in 0..(Len(call.arg) - 1) :
              LET n == Len(charset)
                  q == Index(charset, call.arg[i + 1])
                  c == KeyPos(i)
              IN  result.value[i + 1] = charset[((q - c) % n) + 1]

\* decrypt returned for a text longer than the passkey, with a difference of
\* positions below zero
C3_Witness ==
    /\ ValidEngine /\ Called("decrypt") /\ result.kind = "return"
    /\ Len(call.arg) > Len(passkey)
    /\ \E i \in 0..(Len(call.arg) - 1) :
           Index(charset, call.arg[i + 1]) < KeyPos(i)

\* C4: keystream fitting.  With a non-empty passkey of length k,
\* _fitted_passkey(text) returns a string of len(text) symbols whose symbol
\* at i is passkey[i mod k].
C4_FittedPasskey ==
    (Called("_fitted_passkey") /\ passkey # <<>>)
    => /\ result.kind = "return"
       /\ Len(result.value) = Len(call.arg)
       /\ \A i \in 0..(Len(call.arg) - 1) :
              result.value[i + 1] = passkey[(i % Len(passkey)) + 1]

\* the text is longer than the passkey and a whole multiple of it, with at
\* least one pass of the loop
C4_Witness ==
    /\ Called("_fitted_passkey") /\ result.kind = "return"
    /\ Len(passkey) > 1
    /\ Len(call.arg) > Len(passkey)
    /\ Len(call.arg) % Len(passkey) = 0

\* the other two cases: the passkey is at least as long as the text, and the
\* text is longer and not a whole multiple
C4_WitnessTruncated ==
    /\ Called("_fitted_passkey") /\ result.kind = "return"
    /\ Len(passkey) > Len(call.arg) /\ Len(call.arg) > 0

C4_WitnessRemainder ==
    /\ Called("_fitted_passkey") /\ result.kind = "return"
    /\ Len(passkey) > 1
    /\ Len(call.arg) > Len(passkey)
    /\ Len(call.arg) % Len(passkey) # 0

\* C5: table shape.  For a duplicate-free charset of length n the table has
\* n rows, the row of the symbol at position i is the charset rotated left by
\* i (row[j] = charset[(i + j) mod n]), and every row is a permutation of the
\* charset.
C5_TableShape ==
    (vig = "built" /\ IsDupFree(charset))
    => LET n == Len(charset)
       IN  /\ Cardinality(DOMAIN rows) = n
           /\ DOMAIN rows = Range(charset)
           /\ \A i \in 0..(n - 1) :
                  LET row == rows[charset[i + 1]]
                  IN  /\ row = Slice(charset, i, n) \o Slice(charset, 0, i)
                      /\ Len(row) = n
                      /\ \A j \in 0..(n - 1) :
                             row[j + 1] = charset[((i + j) % n) + 1]
                      /\ IsDupFree(row)
                      /\ Range(row) = Range(charset)
           /\ n > 0 => rows[charset[1]] = charset

C5_Witness ==
    vig = "built" /\ IsDupFree(charset) /\ Len(charset) = Cardinality(Symbols)

\* C6 as stated: the default charset is A-Z, then a-z, then the digits, then
\* the ASCII punctuation, then the space.
C6_UppercaseFirst ==
    (vig = "built" /\ args.defaulted)
    => /\ Len(charset) = 95
       /\ SubSeq(charset, 1, 26) = ascii_uppercase
       /\ SubSeq(charset, 27, 52) = ascii_lowercase
       /\ SubSeq(charset, 53, 62) = digits
       /\ SubSeq(charset, 63, 94) = punctuation
       /\ charset[95] = " "

\* C6, amended: the default charset is a-z, then A-Z, then the digits, then
\* the ASCII punctuation, then the space.
C6_LowercaseFirst ==
    (vig = "built" /\ args.defaulted)
    => /\ Len(charset) = 95
       /\ SubSeq(charset, 1, 26) = ascii_lowercase
       /\ SubSeq(charset, 27, 52) = ascii_uppercase
       /\ SubSeq(charset, 53, 62) = digits
       /\ SubSeq(charset, 63, 94) = punctuation
       /\ charset[95] = " "

C6_Witness ==
    vig = "built" /\ args.defaulted /\ passkey = DocPasskey /\ Called("encrypt")

\* The docstring's example (lines 12-15), which fixes the order of the
\* default charset: with passkey "p@sSw0rd", "hello world" encrypts to
\* "w^D3KZNrG v", and that decrypts to "hello world".
DocstringExample ==
    (vig = "built" /\ args.defaulted /\ passkey = DocPasskey)
    => /\ (Called("encrypt") /\ call.arg = DocText) => result = Return(DocEncrypted)
       /\ (Called("decrypt") /\ call.arg = DocEncrypted) => result = Return(DocText)

\* The symbols of text that are not in the charset
Offending(text) == {text[i] : i \in {j \in 1..Len(text) : text[j] \notin Range(charset)}}

\* C7 as stated: for a text with a symbol outside the charset, encrypt and
\* decrypt raise the ValueError 'Text contains characters not in @charset'
\* that reports exactly the distinct symbols of the text outside the charset.
C7_InvalidCharactersAlways ==
    (/\ vig = "built"
     /\ call.op \in {"encrypt", "decrypt"}
     /\ Offending(call.arg) # {})
    => result = Raise("ValueError", InvalidCharacters, Offending(call.arg))

\* C7, amended: for a text with a symbol outside the charset that does not
\* contain the passkey as a contiguous substring, encrypt and decrypt raise
\* the ValueError 'Text contains characters not in @charset' that reports
\* exactly the distinct symbols of the text outside the charset.
C7_InvalidCharacters ==
    (/\ vig = "built"
     /\ call.op \in {"encrypt", "decrypt"}
     /\ Offending(call.arg) # {}
     /\ ~Contains(passkey, call.arg))
    => result = Raise("ValueError", InvalidCharacters, Offending(call.arg))

\* decrypt raised for a text with two offending symbols and a valid one
C7_Witness ==
    /\ Called("decrypt")
    /\ result.kind = "raise" /\ result.msg = InvalidCharacters
    /\ Cardinality(result.diff) = 2
    /\ Range(call.arg) # result.diff

\* C8: construction raises the ValueError '@passkey must be a subset of
\* @charset.' exactly when some symbol of the passkey is not in the charset;
\* otherwise the engine holds the given passkey, the given charset and the
\* table derived from it; when it raises there is no engine.
C8_Construction ==
    vig # "unbuilt"
    => /\ vig = "failed"
              <=> \E i \in 1..Len(args.passkey) :
                      \A j \in 1..Len(args.charset) : args.passkey[i] # args.charset[j]
       /\ vig = "failed"
              => /\ result = Raise("ValueError", InvalidPasskey, {})
                 /\ call.op = "__init__"
                 /\ engine = <<<<>>, <<>>, <<>>>>
       /\ vig = "built"
              => /\ passkey = args.passkey
                 /\ charset = args.charset
                 /\ rows = RowsOf(args.charset)
                 /\ call.op = "__init__" => result = ReturnNone

\* construction raised for a passkey with one symbol in the charset and one
\* outside it
C8_Witness ==
    /\ vig = "failed"
    /\ Range(args.passkey) \cap Range(args.charset) # {}
    /\ Range(args.passkey) \ Range(args.charset) # {}

\* What the last call gives on the engine as it is now
Outcome ==
    CASE call.op = "encrypt" -> encrypt(call.arg)
      [] call.op = "decrypt" -> decrypt(call.arg)
      [] call.op = "show" -> show(call.arg)
      [] call.op = "_fitted_passkey" -> fitted_passkey(call.arg)
      [] OTHER -> ReturnNone

\* C9: read-only engine.  No call on a built engine, whether it returns or
\* raises, changes the passkey, the charset or the table, so the result of a
\* call is what that call gives on the engine as constructed.
C9_ReadOnly ==
    /\ [][vig = "built" => vig' = "built" /\ engine' = engine]_vars
    /\ [](vig = "built" => result = Outcome)

\* a call that raised, on an engine whose passkey is shorter than the text
\* it was fitted to before
C9_Witness ==
    /\ Called("decrypt") /\ result.kind = "raise"
    /\ passkey # <<>> /\ Len(call.arg) > Len(passkey)

\* C10: the constructor accepts the empty passkey, and on such an engine
\* every encrypt and decrypt call raises 'Text cannot contain passkey.', so
\* it never raises the ZeroDivisionError of keystream fitting.
C10_EmptyPasskey ==
    /\ (vig # "unbuilt" /\ args.passkey = <<>>) => (vig = "built" /\ passkey = <<>>)
    /\ (vig = "built" /\ passkey = <<>> /\ call.op \in {"encrypt", "decrypt"})
           => result = Raise("ValueError", PasskeyLeakage, {})

\* encrypt raised the passkey error on an engine with the empty passkey, for
\* a text on which keystream fitting divides by zero
C10_Witness ==
    /\ Called("encrypt") /\ passkey = <<>>
    /\ fitted_passkey(call.arg).kind = "raise"
    /\ result.kind = "raise" /\ result.msg = PasskeyLeakage

\* the same for the empty text
C10_WitnessEmptyText ==
    /\ Called("decrypt") /\ passkey = <<>> /\ call.arg = <<>>
    /\ result.kind = "raise" /\ result.msg = PasskeyLeakage

\* Called directly on an engine with the empty passkey, keystream fitting
\* does divide by zero.
FittingDividesByZero ==
    /\ Called("_fitted_passkey") /\ passkey = <<>>
    /\ result.kind = "raise" /\ result.exc = "ZeroDivisionError"

====
